---- MODULE Spec2Model ----
(***************************************************************************)
(* Model of the open-reid example training scripts                         *)
(*   examples/softmax_loss.py        (main_worker, get_data, parser)       *)
(*   examples/softmax_loss_joint.py  (main, get_data, parser)              *)
(*                                                                         *)
(* Spec      : one logs_dir and the processes run on it: the training      *)
(*             loop, checkpointing, --resume, --evaluate, the learning     *)
(*             rate schedule.  A process may be killed and restarted.      *)
(* FairSpec  : the same without kills, with weak fairness of the process   *)
(*             steps (a started process keeps running).                    *)
(* SpecJoint : get_data of softmax_loss_joint.py: the two datasets, the    *)
(*             merged training set and the classifier sized from it.       *)
(* SpecLoader: the parser defaults, the loaders get_data builds and one    *)
(*             pass over train_loader.                                     *)
(*                                                                         *)
(* Floating point values are modelled exactly: a validation mAP is a level *)
(* in 0..MaxMAP; a learning rate is an integer count of the unit           *)
(* args.lr * 10^-LrDigits, so that args.lr itself is Pow10(LrDigits) units *)
(* whatever value --lr has.                                                *)
(***************************************************************************)
EXTENDS Integers, Sequences, FiniteSets, TLC

\* ------------------------------------------------------------------ bounds
MaxEpochs == 3
MaxMAP == 2
MaxStep == 2

\* ------------------------------------------------------------- helpers
max(a, b) == IF a >= b THEN a ELSE b

RECURSIVE Pow10(_)
Pow10(n) == IF n <= 0 THEN 1 ELSE 10 * Pow10(n - 1)

\* lr values are kept as multiples of args.lr * 10^-LrDigits, so that every
\* decay 0.1 ** (epoch // step_size) reachable within the epoch bound is exact
LrDigits == MaxEpochs + 1

\* args.lr, in these units
ArgsLr == Pow10(LrDigits)

Range(s) == {s[i] : i \in 1..Len(s)}

\* filter of a sequence, keeping the order
RECURSIVE SelectOp(_, _)
SelectOp(s, ops) ==
  IF s = <<>> THEN <<>>
  ELSE IF Head(s).op \in ops THEN <<Head(s)>> \o SelectOp(Tail(s), ops)
       ELSE SelectOp(Tail(s), ops)

\* ------------------------------------------------------------- state
VARIABLES
  args,         \* the parsed command line of the running process
  has_base,     \* hasattr(model.module, 'base')
  pc,           \* position of the process in main_worker / main
  start_epoch,  \* global / local start_epoch
  best_mAP,     \* global / local best_mAP
  epoch,        \* loop variable of the training loop
  mAP,          \* result of the last validation
  model,        \* the weights, as the sequence of epochs that trained them
  optimizer,    \* optimizer.param_groups, <<>> before the optimizer exists
  disk,         \* logs_dir: checkpoint.pth.tar and model_best.pth.tar
  restored,     \* history: start_epoch and best_mAP as the process started
  log           \* history of the calls the running process has made

\* get_data of softmax_loss_joint.py and the model it sizes (SpecJoint)
VARIABLES
  jargs,              \* dataset_source, dataset_target, combine_trainval
  on_disk,            \* per dataset name, the identities its index holds
  jpc,                \* position in get_data / main
  dataset_source,
  dataset_target,
  num_classes_source,
  num_classes_target,
  train_set_source,
  train_set_target,
  train_set,          \* the elements of list(set(...) | set(...))
  num_classes,        \* what get_data returns to main
  classifier          \* out_features of the model's classification layer

trainVars == <<args, has_base, pc, start_epoch, best_mAP, epoch, mAP, model,
               optimizer, disk, restored, log>>

jointVars == <<jargs, on_disk, jpc, dataset_source, dataset_target,
               num_classes_source, num_classes_target, train_set_source,
               train_set_target, train_set, num_classes, classifier>>

\* argument parsing, the loaders of get_data and one pass over train_loader
\* (SpecLoader)
VARIABLES
  argv,          \* the command line: script, --num-instances, --batch-size
  largs,         \* parser.parse_args()
  data_source,   \* train_set, the list the sampler and the loader index
  train_loader,
  val_loader,
  test_loaders,
  todo,          \* what the running pass has not drawn yet
  pending,       \* indices drawn and not yet delivered
  minibatch,     \* the minibatch delivered last, <<>> before the first
  lpc

loaderVars == <<argv, largs, data_source, train_loader, val_loader,
                test_loaders, todo, pending, minibatch, lpc>>

dataVars == <<jointVars, loaderVars>>

vars == <<trainVars, jointVars, loaderVars>>

NoFile == [exists |-> FALSE]
CheckpointFile == "checkpoint.pth.tar"
ModelBestFile == "model_best.pth.tar"

Scripts == {"softmax_loss", "softmax_loss_joint"}
Archs == {"resnet50", "inception"}

\* one entry of the history
Event(op, e, m, b) == [op |-> op, epoch |-> e, mAP |-> m, is_best |-> b,
                       best_mAP |-> best_mAP]
EventB(op, e, m, b, best) == [op |-> op, epoch |-> e, mAP |-> m, is_best |-> b,
                              best_mAP |-> best]

\* ------------------------------------------------------ serialization
\* save_checkpoint(state, is_best, fpath): write state to fpath and, when
\* is_best, copy it to model_best.pth.tar beside it
save_checkpoint(d, state, is_best) ==
  LET f == [exists |-> TRUE, state_dict |-> state.state_dict,
            epoch |-> state.epoch, best_mAP |-> state.best_mAP]
  IN [d EXCEPT ![CheckpointFile] = f,
               ![ModelBestFile] = IF is_best THEN f ELSE @]

\* load_checkpoint(fpath): the stored state; raises when fpath is no file
load_checkpoint(d, fpath) == d[fpath]

\* --------------------------------------------------------- the process
\* lines 116-122: the state a new process starts from
ResumeState(a, d) ==
  IF a.resume # ""
  THEN LET checkpoint == load_checkpoint(d, a.resume)
       IN [model |-> checkpoint.state_dict,
           start_epoch |-> checkpoint.epoch,
           best_mAP |-> checkpoint.best_mAP]
  ELSE [model |-> <<>>, start_epoch |-> 0, best_mAP |-> 0]

StartProcess(a, d) ==
  LET r == ResumeState(a, d)
  IN /\ args' = a
     /\ model' = r.model
     /\ start_epoch' = r.start_epoch
     /\ best_mAP' = r.best_mAP
     /\ pc' = "evaluator"
     /\ epoch' = 0
     /\ mAP' = 0
     /\ optimizer' = <<>>
     /\ log' = <<>>
     /\ restored' = [start_epoch |-> r.start_epoch, best_mAP |-> r.best_mAP]
     /\ disk' = d
     /\ UNCHANGED <<dataVars, has_base>>

\* the command lines considered, with --resume among `resumes`
\* (only softmax_loss_joint.py reads args.arch in what is modelled here)
ArgSets(resumes) ==
  {a \in [epochs : 0..MaxEpochs, start_save : 0..MaxEpochs, evaluate : BOOLEAN,
          resume : resumes, step_size : 1..MaxStep, arch : Archs,
          script : Scripts] :
     a.script = "softmax_loss" => a.arch = "resnet50"}

InitTrain ==
  /\ args \in ArgSets({""})
  /\ has_base \in BOOLEAN
  /\ disk = [f \in {CheckpointFile, ModelBestFile} |-> NoFile]
  /\ pc = "evaluator"
  /\ model = <<>>
  /\ start_epoch = 0
  /\ best_mAP = 0
  /\ epoch = 0
  /\ mAP = 0
  /\ optimizer = <<>>
  /\ restored = [start_epoch |-> 0, best_mAP |-> 0]
  /\ log = <<>>

\* the training process is not part of the data specifications
IdleTrain ==
  /\ args = [epochs |-> 0, start_save |-> 0, evaluate |-> FALSE, resume |-> "",
             step_size |-> 1, arch |-> "resnet50",
             script |-> "softmax_loss"]
  /\ has_base = FALSE
  /\ disk = [f \in {CheckpointFile, ModelBestFile} |-> NoFile]
  /\ pc = "idle"
  /\ model = <<>>
  /\ start_epoch = 0
  /\ best_mAP = 0
  /\ epoch = 0
  /\ mAP = 0
  /\ optimizer = <<>>
  /\ restored = [start_epoch |-> 0, best_mAP |-> 0]
  /\ log = <<>>

IdleLoader ==
  /\ argv = [script |-> "", num_instances |-> <<>>, batch_size |-> <<>>]
  /\ largs = [num_instances |-> 0, batch_size |-> 0]
  /\ data_source = <<>>
  /\ train_loader = [batch_size |-> 0]
  /\ val_loader = [batch_size |-> 0]
  /\ test_loaders = <<>>
  /\ todo = {}
  /\ pending = <<>>
  /\ minibatch = <<>>
  /\ lpc = "idle"

\* mutant: the --evaluate branch is never taken
evaluate_only_ignored == FALSE

\* line 133 / 131: if args.evaluate
evaluate_only == args.evaluate

\* lines 133-139 / 131-145: evaluation only, then return
EvaluateOnly ==
  /\ pc = "evaluator"
  /\ evaluate_only
  /\ log' = log \o <<Event("evaluate", -1, -1, FALSE),
                     Event("evaluate", -1, -1, FALSE)>>
  /\ pc' = "done"
  /\ UNCHANGED <<dataVars, restored, args, has_base, start_epoch, best_mAP, epoch, mAP, model,
                 optimizer, disk>>

\* lines 145-157 / 151-163: the parameter groups and torch.optim.SGD, which
\* gives every group the default lr
ParamGroups ==
  IF has_base
  THEN <<[params |-> "base", lr_mult |-> 1], [params |-> "new", lr_mult |-> 10]>>
  ELSE <<[params |-> "all"]>>

SGD(param_groups, lr) ==
  [i \in 1..Len(param_groups) |->
     [k \in DOMAIN param_groups[i] \cup {"lr"} |->
        IF k = "lr" THEN lr ELSE param_groups[i][k]]]

CreateOptimizer ==
  /\ pc = "evaluator"
  /\ ~evaluate_only
  /\ optimizer' = SGD(ParamGroups, ArgsLr)
  /\ epoch' = start_epoch
  /\ pc' = "loop"
  /\ UNCHANGED <<dataVars, restored, args, has_base, start_epoch, best_mAP, mAP, model, disk, log>>

\* line 164 / 172
StepSize ==
  IF args.script = "softmax_loss_joint"
  THEN (IF args.arch = "inception" THEN 60 ELSE args.step_size)
  ELSE args.step_size

\* line 165 / 178: lr = args.lr * (0.1 ** (epoch // step_size))
DecayedLr(e) == Pow10(LrDigits - (e \div StepSize))

\* line 167 / 180: g['lr'] = lr * g.get('lr_mult', 1)
GroupLr(g, lr) == lr * (IF "lr_mult" \in DOMAIN g THEN g.lr_mult ELSE 1)

adjust_lr(e) ==
  [i \in 1..Len(optimizer) |->
     [optimizer[i] EXCEPT !.lr = GroupLr(optimizer[i], DecayedLr(e))]]

\* mutant: the loop runs one epoch too far
InRange_inclusive(e) == e <= args.epochs

\* line 170 / 183: for epoch in range(start_epoch, args.epochs)
InRange(e) == e < args.epochs

\* line 171 / 184
AdjustLr ==
  /\ pc = "loop"
  /\ InRange(epoch)
  /\ optimizer' = adjust_lr(epoch)
  /\ log' = Append(log, Event("adjust_lr", epoch, -1, FALSE))
  /\ pc' = "train"
  /\ UNCHANGED <<dataVars, restored, args, has_base, start_epoch, best_mAP, epoch, mAP, model, disk>>

\* mutant: saving starts after the epoch start_save, not with it
SkipSave_after(e) == e <= args.start_save

\* line 173 / 186: if epoch < args.start_save: continue
SkipSave(e) == e < args.start_save

\* lines 172-174 / 185-187
Train ==
  /\ pc = "train"
  /\ model' = Append(model, epoch)
  /\ log' = Append(log, Event("train", epoch, -1, FALSE))
  /\ IF SkipSave(epoch)
     THEN epoch' = epoch + 1 /\ pc' = "loop"
     ELSE epoch' = epoch /\ pc' = "validate"
  /\ UNCHANGED <<dataVars, restored, args, has_base, start_epoch, best_mAP, mAP, optimizer, disk>>

\* line 175 / 188: mAP = evaluator.evaluate(val_loader, ...)
Validate ==
  /\ pc = "validate"
  /\ \E m \in 0..MaxMAP :
       /\ mAP' = m
       /\ log' = Append(log, Event("validate", epoch, m, FALSE))
  /\ pc' = "save"
  /\ UNCHANGED <<dataVars, restored, args, has_base, start_epoch, best_mAP, epoch, model,
                 optimizer, disk>>

\* mutant: a tie with the best so far counts as a new best
IsBest_tie(m, best) == m >= best

\* line 177 / 190
IsBest(m, best) == m > best

\* line 178 / 191
NewBest(m, best) == max(m, best)

\* mutant: the checkpoint stores the epoch just trained, not the next one
CheckpointState_same_epoch(e, best) ==
  [state_dict |-> model, epoch |-> e, best_mAP |-> best]

\* lines 179-183 / 192-196: the state handed to save_checkpoint
CheckpointState(e, best) ==
  [state_dict |-> model, epoch |-> e + 1, best_mAP |-> best]

\* lines 177-183 / 190-196
SaveCheckpoint ==
  /\ pc = "save"
  /\ LET is_best == IsBest(mAP, best_mAP)
         best == NewBest(mAP, best_mAP)
     IN /\ best_mAP' = best
        /\ disk' = save_checkpoint(disk, CheckpointState(epoch, best), is_best)
        /\ log' = Append(log, EventB("save", epoch, mAP, is_best, best))
  /\ epoch' = epoch + 1
  /\ pc' = "loop"
  /\ UNCHANGED <<dataVars, restored, args, has_base, start_epoch, mAP, model, optimizer>>

\* the loop is exhausted
LoopExit ==
  /\ pc = "loop"
  /\ ~InRange(epoch)
  /\ pc' = "final"
  /\ UNCHANGED <<dataVars, restored, args, has_base, start_epoch, best_mAP, epoch, mAP, model,
                 optimizer, disk, log>>

\* lines 188-193 / 201-211: test with the best model
FinalTest ==
  /\ pc = "final"
  /\ LET checkpoint == load_checkpoint(disk, ModelBestFile)
     IN IF checkpoint.exists
        THEN /\ model' = checkpoint.state_dict
             /\ log' = log \o <<Event("load_best", -1, -1, FALSE),
                                Event("evaluate", -1, -1, FALSE)>>
             /\ pc' = "done"
        ELSE /\ model' = model
             /\ log' = Append(log, Event("load_best", -1, -1, FALSE))
             /\ pc' = "error"
  /\ UNCHANGED <<dataVars, restored, args, has_base, start_epoch, best_mAP, epoch, mAP,
                 optimizer, disk>>

\* a new invocation of the script on the same logs_dir
NewArgs ==
  {[args EXCEPT !.evaluate = ev, !.resume = r] :
     ev \in BOOLEAN,
     r \in {f \in {"", CheckpointFile, ModelBestFile} : f = "" \/ disk[f].exists}}

\* the process has ended and the script is run again
Rerun ==
  /\ pc \in {"done", "error"}
  /\ \E a \in NewArgs : StartProcess(a, disk)

\* the process is killed and the script is run again
Interrupt ==
  /\ pc \notin {"done", "error"}
  /\ \E a \in NewArgs : StartProcess(a, disk)

Step ==
  \/ EvaluateOnly
  \/ CreateOptimizer
  \/ AdjustLr
  \/ Train
  \/ Validate
  \/ SaveCheckpoint
  \/ LoopExit
  \/ FinalTest

Next ==
  \/ Step
  \/ Rerun
  \/ Interrupt

NextFair ==
  \/ Step
  \/ Rerun

\* ------------------------------------------------------------- datasets
\* The index of a dataset on disk: identities 0 .. train + val - 1, the first
\* `train` of them in the training split; identity i has one image per camera
\* in 0 .. i % 2, named after identity, camera and running number.
DatasetNames == {"market1501", "dukemtmc"}

Fname(i, cam) == <<i, cam, 0>>

ImagesOf(i, label) ==
  IF i % 2 = 0
  THEN << <<Fname(i, 0), label, 0>> >>
  ELSE << <<Fname(i, 0), label, 0>>, <<Fname(i, 1), label, 1>> >>

\* (fname, pid, cam) of the identities first .. first + count - 1, relabelled
\* label, label + 1, ...
RECURSIVE Pluck(_, _, _)
Pluck(first, count, label) ==
  IF count <= 0 THEN <<>>
  ELSE ImagesOf(first, label) \o Pluck(first + 1, count - 1, label + 1)

\* datasets.create(name, root, split_id=..., start_idx=...)
create(index, name, start_idx) ==
  [name |-> name,
   train |-> Pluck(0, index[name].train, start_idx),
   val |-> Pluck(index[name].train, index[name].val, start_idx),
   trainval |-> Pluck(0, index[name].train + index[name].val, start_idx),
   num_train_ids |-> index[name].train,
   num_val_ids |-> index[name].val,
   num_trainval_ids |-> index[name].train + index[name].val]

NoDataset == [name |-> ""]

\* ------------------------------------------- get_data, softmax_loss_joint
MaxIds == 3
ValIds == {1, 2}

IdleJoint ==
  /\ jargs = [dataset_source |-> "", dataset_target |-> "",
              combine_trainval |-> FALSE]
  /\ on_disk = [n \in DatasetNames |-> [train |-> 0, val |-> 0]]
  /\ jpc = "idle"
  /\ dataset_source = NoDataset
  /\ dataset_target = NoDataset
  /\ num_classes_source = 0
  /\ num_classes_target = 0
  /\ train_set_source = <<>>
  /\ train_set_target = <<>>
  /\ train_set = {}
  /\ num_classes = 0
  /\ classifier = 0

InitJoint ==
  /\ jargs \in [dataset_source : DatasetNames, dataset_target : DatasetNames,
                combine_trainval : BOOLEAN]
  /\ on_disk \in [DatasetNames -> [train : 1..MaxIds, val : ValIds]]
  /\ jpc = "create_source"
  /\ dataset_source = NoDataset
  /\ dataset_target = NoDataset
  /\ num_classes_source = 0
  /\ num_classes_target = 0
  /\ train_set_source = <<>>
  /\ train_set_target = <<>>
  /\ train_set = {}
  /\ num_classes = 0
  /\ classifier = 0

\* line 25: start_idx of the source dataset
SourceStartIdx == 0

\* lines 25-27
CreateSource ==
  /\ jpc = "create_source"
  /\ LET d == create(on_disk, jargs.dataset_source, SourceStartIdx)
     IN /\ dataset_source' = d
        /\ train_set_source' = (IF jargs.combine_trainval THEN d.trainval ELSE d.train)
        /\ num_classes_source' = (IF jargs.combine_trainval
                                  THEN d.num_trainval_ids ELSE d.num_train_ids)
  /\ jpc' = "create_target"
  /\ UNCHANGED <<jargs, on_disk, dataset_target, num_classes_target,
                 train_set_target, train_set, num_classes, classifier>>
  /\ UNCHANGED <<trainVars, loaderVars>>

\* mutant: the target dataset is labelled from 0 like the source
TargetStartIdx_zero == SourceStartIdx

\* line 29: start_idx=num_classes_source
TargetStartIdx == num_classes_source

\* lines 29-31
CreateTarget ==
  /\ jpc = "create_target"
  /\ LET d == create(on_disk, jargs.dataset_target, TargetStartIdx)
     IN /\ dataset_target' = d
        /\ train_set_target' = (IF jargs.combine_trainval THEN d.trainval ELSE d.train)
        /\ num_classes_target' = (IF jargs.combine_trainval
                                  THEN d.num_trainval_ids ELSE d.num_train_ids)
  /\ jpc' = "merge"
  /\ UNCHANGED <<jargs, on_disk, dataset_source, num_classes_source,
                 train_set_source, train_set, num_classes, classifier>>
  /\ UNCHANGED <<trainVars, loaderVars>>

\* line 33: train_set = list(set(train_set_source) | set(train_set_target));
\* the list holds each element of the union once, in an order the hashes
\* decide, and is kept here as the set of its elements
MergeTrainSets ==
  /\ jpc = "merge"
  /\ train_set' = Range(train_set_source) \cup Range(train_set_target)
  /\ jpc' = "return"
  /\ UNCHANGED <<jargs, on_disk, dataset_source, dataset_target,
                 num_classes_source, num_classes_target, train_set_source,
                 train_set_target, num_classes, classifier>>
  /\ UNCHANGED <<trainVars, loaderVars>>

\* mutant: only the source classes are counted
NumClasses_source_only == num_classes_source

\* line 84: num_classes_source+num_classes_target
NumClasses == num_classes_source + num_classes_target

\* lines 84, 107-110: get_data returns
ReturnData ==
  /\ jpc = "return"
  /\ num_classes' = NumClasses
  /\ jpc' = "create_model"
  /\ UNCHANGED <<jargs, on_disk, dataset_source, dataset_target,
                 num_classes_source, num_classes_target, train_set_source,
                 train_set_target, train_set, classifier>>
  /\ UNCHANGED <<trainVars, loaderVars>>

\* line 113: models.create(args.arch, ..., num_classes=num_classes)
CreateModel ==
  /\ jpc = "create_model"
  /\ classifier' = num_classes
  /\ jpc' = "done"
  /\ UNCHANGED <<jargs, on_disk, dataset_source, dataset_target,
                 num_classes_source, num_classes_target, train_set_source,
                 train_set_target, train_set, num_classes>>
  /\ UNCHANGED <<trainVars, loaderVars>>

NextJoint ==
  \/ CreateSource
  \/ CreateTarget
  \/ MergeTrainSets
  \/ ReturnData
  \/ CreateModel


\* ------------------------------------------- the parser and the loaders
MaxInst == 3
MaxBatch == 4

\* parser.add_argument('--num-instances', type=int, default=4, ...)
DefaultNumInstances == 4

\* parser.add_argument('-b', '--batch-size', type=int, default=64 / 16)
DefaultBatchSize == 64
DefaultBatchSizeJoint == 16

None == [type |-> "None"]

InitLoader ==
  /\ argv \in [script : Scripts,
               num_instances : {<<>>} \cup {<<n>> : n \in (-1)..MaxInst},
               batch_size : {<<>>} \cup {<<b>> : b \in 1..MaxBatch}]
  /\ data_source \in {Pluck(0, n, 0) : n \in 1..MaxIds}
  /\ largs = [num_instances |-> 0, batch_size |-> 0]
  /\ train_loader = [batch_size |-> 0]
  /\ val_loader = [batch_size |-> 0]
  /\ test_loaders = <<>>
  /\ todo = {}
  /\ pending = <<>>
  /\ minibatch = <<>>
  /\ lpc = "parse"

\* an option of the command line, or the parser's default for it
Option(given, default) == IF given = <<>> THEN default ELSE given[1]

\* softmax_loss.py lines 201, 213 / softmax_loss_joint.py lines 221, 233
ParseArgs ==
  /\ lpc = "parse"
  /\ largs' = [num_instances |-> Option(argv.num_instances, DefaultNumInstances),
               batch_size |-> Option(argv.batch_size,
                                     IF argv.script = "softmax_loss_joint"
                                     THEN DefaultBatchSizeJoint
                                     ELSE DefaultBatchSize)]
  /\ lpc' = "get_data"
  /\ UNCHANGED <<argv, data_source, train_loader, val_loader, test_loaders,
                 todo, pending, minibatch>>
  /\ UNCHANGED <<trainVars, jointVars>>

\* mutant: num_instances = 0 selects the sampler too
rmgs_flag_from_zero(num_instances) == num_instances >= 0

\* line 54 / 53: rmgs_flag = num_instances > 0
rmgs_flag(num_instances) == num_instances > 0

\* lines 55-58 / 54-57
sampler_type(num_instances) ==
  IF rmgs_flag(num_instances)
  THEN [type |-> "RandomMultipleGallerySampler", num_instances |-> num_instances]
  ELSE None

\* torch.utils.data.DataLoader(dataset, batch_size=, sampler=, shuffle=, drop_last=)
DataLoader(batch_size, sampler, shuffle, drop_last) ==
  [batch_size |-> batch_size, sampler |-> sampler, shuffle |-> shuffle,
   drop_last |-> drop_last]

\* lines 54-78 / 53-84
GetData ==
  /\ lpc = "get_data"
  /\ train_loader' = DataLoader(largs.batch_size, sampler_type(largs.num_instances),
                                ~rmgs_flag(largs.num_instances), TRUE)
  /\ val_loader' = DataLoader(largs.batch_size, None, FALSE, FALSE)
  /\ test_loaders' = IF argv.script = "softmax_loss_joint"
                     THEN <<DataLoader(largs.batch_size, None, FALSE, FALSE),
                            DataLoader(largs.batch_size, None, FALSE, FALSE)>>
                     ELSE <<DataLoader(largs.batch_size, None, FALSE, FALSE)>>
  /\ lpc' = "loaded"
  /\ UNCHANGED <<argv, largs, data_source, todo, pending, minibatch>>
  /\ UNCHANGED <<trainVars, jointVars>>

\* RandomMultipleGallerySampler.__init__: the identities of data_source and,
\* per identity, the indices of its images
Pids(ds) == {ds[i][2] : i \in 1..Len(ds)}

IndexOf(ds, pid) == {i \in 1..Len(ds) : ds[i][2] = pid}

\* iter(train_loader): a pass over the loader starts
IterLoader ==
  /\ lpc = "loaded"
  /\ todo' = IF train_loader.sampler # None THEN Pids(data_source)
             ELSE 1..Len(data_source)
  /\ pending' = <<>>
  /\ lpc' = "iterate"
  /\ UNCHANGED <<argv, largs, data_source, train_loader, val_loader,
                 test_loaders, minibatch>>
  /\ UNCHANGED <<trainVars, jointVars>>

\* RandomMultipleGallerySampler.__iter__: the identities in a random order,
\* each with num_instances indices of its images
SamplerDraw ==
  /\ lpc = "iterate"
  /\ train_loader.sampler # None
  /\ Len(pending) < train_loader.batch_size
  /\ \E pid \in todo :
       \E picks \in [1..train_loader.sampler.num_instances -> IndexOf(data_source, pid)] :
         /\ pending' = pending \o picks
         /\ todo' = todo \ {pid}
  /\ UNCHANGED <<argv, largs, data_source, train_loader, val_loader,
                 test_loaders, minibatch, lpc>>
  /\ UNCHANGED <<trainVars, jointVars>>

\* shuffle=True without a sampler: the indices in a random order
ShuffleDraw ==
  /\ lpc = "iterate"
  /\ train_loader.sampler = None
  /\ train_loader.shuffle
  /\ Len(pending) < train_loader.batch_size
  /\ \E i \in todo :
       /\ pending' = Append(pending, i)
       /\ todo' = todo \ {i}
  /\ UNCHANGED <<argv, largs, data_source, train_loader, val_loader,
                 test_loaders, minibatch, lpc>>
  /\ UNCHANGED <<trainVars, jointVars>>

\* the loader delivers the next batch_size samples
Deliver ==
  /\ lpc = "iterate"
  /\ Len(pending) >= train_loader.batch_size
  /\ minibatch' = [k \in 1..train_loader.batch_size |-> data_source[pending[k]]]
  /\ pending' = SubSeq(pending, train_loader.batch_size + 1, Len(pending))
  /\ UNCHANGED <<argv, largs, data_source, train_loader, val_loader,
                 test_loaders, todo, lpc>>
  /\ UNCHANGED <<trainVars, jointVars>>

\* the order is exhausted; drop_last=True drops an incomplete batch
EndOfPass ==
  /\ lpc = "iterate"
  /\ todo = {}
  /\ Len(pending) < train_loader.batch_size
  /\ pending' = IF train_loader.drop_last THEN <<>> ELSE pending
  /\ lpc' = "end"
  /\ UNCHANGED <<argv, largs, data_source, train_loader, val_loader,
                 test_loaders, todo, minibatch>>
  /\ UNCHANGED <<trainVars, jointVars>>

NextLoader ==
  \/ ParseArgs
  \/ GetData
  \/ IterLoader
  \/ SamplerDraw
  \/ ShuffleDraw
  \/ Deliver
  \/ EndOfPass

\* ------------------------------------------------------- specifications
Init == InitTrain /\ IdleJoint /\ IdleLoader

Spec == Init /\ [][Next]_vars

FairSpec == Init /\ [][NextFair]_vars /\ WF_vars(Step)

JointInit == IdleTrain /\ InitJoint /\ IdleLoader

SpecJoint == JointInit /\ [][NextJoint]_vars

LoaderInit == IdleTrain /\ IdleJoint /\ InitLoader

SpecLoader == LoaderInit /\ [][NextLoader]_vars

\* ------------------------------------------------------------ histories
Saves == SelectOp(log, {"save"})
Validations == SelectOp(log, {"validate"})
Trains == SelectOp(log, {"train"})
LoopCalls == SelectOp(log, {"adjust_lr", "train"})

SetMax(S) == CHOOSE x \in S : \A y \in S : x >= y

IsPrefix(s, t) == Len(s) <= Len(t) /\ \A i \in 1..Len(s) : s[i] = t[i]

\* the weights that epochs 0 .. n-1 have trained, each once and in order
Lineage(n) == [i \in 1..n |-> i - 1]

\* ---------------------------------------------------------------- C1
\* C1: at every save_checkpoint call is_best is true exactly when the epoch's
\* validation mAP is strictly greater than the restored best_mAP and every
\* mAP validated earlier in the run; the best_mAP written is the maximum of
\* all of them, never decreases from one save to the next, and is the value
\* best_mAP has after the call.
C1_BestCheckpointing ==
  LET saves == Saves
      validations == Validations
  IN /\ \A i \in 1..Len(saves) :
          LET earlier == {restored.best_mAP} \cup {saves[j].mAP : j \in 1..(i - 1)}
          IN /\ saves[i].is_best <=> (\A x \in earlier : saves[i].mAP > x)
             /\ saves[i].best_mAP = SetMax(earlier \cup {saves[i].mAP})
             /\ (i > 1 => saves[i].best_mAP >= saves[i - 1].best_mAP)
             /\ saves[i].mAP = validations[i].mAP
     /\ saves # <<>> => best_mAP = saves[Len(saves)].best_mAP

C1_Witness ==
  /\ args.resume # ""
  /\ restored.best_mAP > 0
  /\ Len(Saves) = 2
  /\ ~Saves[1].is_best
  /\ Saves[1].mAP = restored.best_mAP
  /\ Saves[2].is_best

\* ---------------------------------------------------------------- C2
\* C2: when the training loop of a non-evaluate run has ended, the final test
\* finds model_best.pth.tar, written by a save_checkpoint call of the loop with
\* is_best true, holding the weights of the validated epoch with the highest
\* mAP; it never targets a file that no epoch has written.
C2_FinalTestLoadsBest ==
  pc = "final" =>
    /\ disk[ModelBestFile].exists
    /\ \E i \in 1..Len(Saves) :
         /\ Saves[i].is_best
         /\ Saves[i].mAP = SetMax({Validations[j].mAP : j \in 1..Len(Validations)})
         /\ disk[ModelBestFile].epoch = Saves[i].epoch + 1
         /\ disk[ModelBestFile].state_dict = Lineage(Saves[i].epoch + 1)

\* ---------------------------------------------------------------- C3
\* C3: the checkpoint written at the end of epoch e stores epoch = e + 1 and the
\* running best_mAP; a process started with --resume on it restores exactly
\* these values and trains e+1, e+2, ..., epochs-1, so that across kills and
\* resumes the weights have been trained by the same epochs as in an
\* uninterrupted run: 0, 1, 2, ... each once, none skipped.
C3_ResumeRoundTrip ==
  /\ model = Lineage(Len(model))
  /\ \A f \in {CheckpointFile, ModelBestFile} :
       disk[f].exists => disk[f].state_dict = Lineage(disk[f].epoch)
  /\ (log # <<>> /\ log[Len(log)].op = "save") =>
       /\ disk[CheckpointFile].epoch = log[Len(log)].epoch + 1
       /\ disk[CheckpointFile].best_mAP = log[Len(log)].best_mAP
       /\ disk[CheckpointFile].state_dict = model
  /\ (pc = "evaluator" /\ args.resume # "") =>
       /\ start_epoch = disk[args.resume].epoch
       /\ best_mAP = disk[args.resume].best_mAP
       /\ model = disk[args.resume].state_dict
  /\ pc \in {"loop", "train", "validate", "save", "final"} =>
       LET trains == Trains
       IN /\ \A i \in 1..Len(trains) : trains[i].epoch = start_epoch + i - 1
          /\ Len(model) = start_epoch + Len(trains)
          /\ trains # <<>> => trains[1].best_mAP = restored.best_mAP
  /\ (pc = "final" /\ start_epoch <= args.epochs) => model = Lineage(args.epochs)

C3_Witness ==
  /\ args.resume = CheckpointFile
  /\ pc = "final"
  /\ 0 < start_epoch
  /\ Len(Trains) >= 2
  /\ restored.best_mAP > 0

\* ---------------------------------------------------------------- C4
CallsOf(e) == SelectSeq(log, LAMBDA ev : ev.epoch = e)

OpsOf(e) == [i \in 1..Len(CallsOf(e)) |-> CallsOf(e)[i].op]

\* C4: an epoch e < start_save is trained without any validation or checkpoint
\* and leaves best_mAP as it was; an epoch e >= start_save is trained, then
\* validated exactly once, then saved exactly once.
C4_StartSave ==
  \A e \in 0..MaxEpochs :
    LET calls == CallsOf(e)
        ops == [i \in 1..Len(calls) |-> calls[i].op]
    IN /\ e < args.start_save =>
            /\ IsPrefix(ops, <<"adjust_lr", "train">>)
            /\ \A i \in 1..Len(calls) : calls[i].best_mAP = restored.best_mAP
       /\ e >= args.start_save =>
            IsPrefix(ops, <<"adjust_lr", "train", "validate", "save">>)
       /\ (calls # <<>> /\ (epoch > e \/ pc \in {"final", "done", "error"})) =>
            ops = IF e < args.start_save
                  THEN <<"adjust_lr", "train">>
                  ELSE <<"adjust_lr", "train", "validate", "save">>

C4_Witness ==
  /\ pc = "final"
  /\ args.start_save = 1
  /\ OpsOf(0) = <<"adjust_lr", "train">>
  /\ OpsOf(1) = <<"adjust_lr", "train", "validate", "save">>
  /\ OpsOf(2) = <<"adjust_lr", "train", "validate", "save">>

\* ---------------------------------------------------------------- C5
\* C5: with a 'base' module, after adjust_lr(epoch) for an epoch below
\* step_size the new parameters' lr is args.lr and the base parameters' lr is
\* args.lr / 10; at every epoch the base lr is a tenth of the new lr.
C5_LrOfNewParams ==
  (has_base /\ pc = "train") =>
    /\ 10 * optimizer[1].lr = optimizer[2].lr
    /\ epoch < StepSize =>
         /\ optimizer[2].lr = ArgsLr
         /\ 10 * optimizer[1].lr = ArgsLr

\* ---------------------------------------------------------------- C6
BatchPids == {minibatch[k][2] : k \in 1..Len(minibatch)}

InstancesOf(pid) == Cardinality({k \in 1..Len(minibatch) : minibatch[k][2] = pid})

\* C6: with num_instances > 0, every minibatch the train loader delivers
\* consists of batch_size // num_instances identities, each with exactly
\* num_instances instances.
C6_IdentityBalanced ==
  (minibatch # <<>> /\ largs.num_instances > 0) =>
    /\ Cardinality(BatchPids) = largs.batch_size \div largs.num_instances
    /\ \A pid \in BatchPids : InstancesOf(pid) = largs.num_instances

\* ---------------------------------------------------------------- C8
Labels(S) == {x[2] : x \in S}

\* C8: in the merged training set of the joint script every source sample has
\* a label in [0, num_classes_source), every target sample one in
\* [num_classes_source, num_classes_source + num_classes_target), no label is
\* shared by the two domains, every sample of either domain is in the merged
\* set exactly once, and the classifier has num_classes_source +
\* num_classes_target classes, so that every label is a valid class index.
C8_JointLabels ==
  /\ jpc \in {"merge", "return", "create_model", "done"} =>
       /\ \A x \in Range(train_set_source) : 0 <= x[2] /\ x[2] < num_classes_source
       /\ \A x \in Range(train_set_target) :
            /\ num_classes_source <= x[2]
            /\ x[2] < num_classes_source + num_classes_target
       /\ Labels(Range(train_set_source)) \cap Labels(Range(train_set_target)) = {}
  /\ jpc \in {"return", "create_model", "done"} =>
       /\ \A i \in 1..Len(train_set_source) : train_set_source[i] \in train_set
       /\ \A i \in 1..Len(train_set_target) : train_set_target[i] \in train_set
       /\ Cardinality(train_set) = Len(train_set_source) + Len(train_set_target)
  /\ jpc = "done" =>
       /\ classifier = num_classes_source + num_classes_target
       /\ \A x \in train_set : 0 <= x[2] /\ x[2] < classifier

C8_Witness ==
  /\ jpc = "done"
  /\ jargs.dataset_source = jargs.dataset_target
  /\ jargs.combine_trainval
  /\ num_classes_source >= 2
  /\ \E x \in Range(train_set_source), y \in Range(train_set_target) : x[1] = y[1]

\* ---------------------------------------------------------------- C9
\* C9: started without --num-instances, num_instances is 0, the
\* RandomMultipleGallerySampler is not used and the train loader shuffles.
C9_DefaultNumInstances ==
  (argv.num_instances = <<>> /\ lpc \notin {"idle", "parse"}) =>
    /\ largs.num_instances = 0
    /\ lpc # "get_data" => (train_loader.sampler = None /\ train_loader.shuffle)

\* ---------------------------------------------------------------- C11
UsesSampler(loader) == loader.sampler # None

\* C11: the train loader get_data builds has exactly one ordering source:
\* num_instances > 0 gives the RandomMultipleGallerySampler with that
\* num_instances and shuffle = False, num_instances <= 0 gives no sampler and
\* shuffle = True; the validation and test loaders neither shuffle nor use a
\* sampler.
C11_SamplerXorShuffle ==
  lpc \in {"loaded", "iterate", "end"} =>
    /\ UsesSampler(train_loader) # train_loader.shuffle
    /\ largs.num_instances > 0 =>
         /\ train_loader.sampler =
              [type |-> "RandomMultipleGallerySampler",
               num_instances |-> largs.num_instances]
         /\ ~train_loader.shuffle
    /\ largs.num_instances <= 0 =>
         /\ train_loader.sampler = None
         /\ train_loader.shuffle
    /\ ~UsesSampler(val_loader) /\ ~val_loader.shuffle
    /\ \A i \in 1..Len(test_loaders) :
         ~UsesSampler(test_loaders[i]) /\ ~test_loaders[i].shuffle
    /\ Len(test_loaders) = (IF argv.script = "softmax_loss_joint" THEN 2 ELSE 1)

\* the sampler orders a delivered minibatch
C11_Witness ==
  /\ lpc = "iterate"
  /\ largs.num_instances > 0
  /\ argv.num_instances # <<>>
  /\ UsesSampler(train_loader)
  /\ minibatch # <<>>

\* num_instances = 0 and below: a shuffled minibatch has been delivered
C11_WitnessShuffle ==
  /\ lpc = "iterate"
  /\ largs.num_instances <= 0
  /\ train_loader.shuffle
  /\ minibatch # <<>>
  /\ argv.script = "softmax_loss_joint"

\* ---------------------------------------------------------------- C7
\* C7: with --evaluate the process only evaluates and returns: no epoch is
\* trained, no learning rate set, no checkpoint saved, model_best is not
\* loaded, and start_epoch and best_mAP stay as restored.
C7_EvaluateOnly ==
  /\ [](args.evaluate =>
          /\ pc \in {"evaluator", "done"}
          /\ \A i \in 1..Len(log) : log[i].op = "evaluate"
          /\ optimizer = <<>>
          /\ start_epoch = restored.start_epoch
          /\ best_mAP = restored.best_mAP)
  /\ [][(args.evaluate /\ pc' # "evaluator") =>
          (disk' = disk /\ model' = model /\ optimizer' = optimizer
           /\ start_epoch' = start_epoch /\ best_mAP' = best_mAP)]_vars

C7_Witness ==
  /\ args.evaluate
  /\ pc = "done"
  /\ args.resume # ""
  /\ 0 < restored.start_epoch
  /\ restored.start_epoch < args.epochs
  /\ Len(log) = 2

\* ---------------------------------------------------------------- C10
\* the number of epochs range(start_epoch, args.epochs) holds
TrainCount == IF start_epoch >= args.epochs THEN 0 ELSE args.epochs - start_epoch

\* C10: a non-evaluate process calls adjust_lr(e) then Trainer.train(e) for
\* e = start_epoch, start_epoch + 1, ..., epochs - 1, once each and in this
\* order, no epoch outside the range, none at all when start_epoch >= epochs,
\* and it always reaches the final test.
C10_LoopOrder ==
  ~args.evaluate =>
    LET calls == LoopCalls
        trained == Len(calls) \div 2
    IN /\ \A i \in 1..Len(calls) :
            /\ calls[i].epoch = start_epoch + ((i - 1) \div 2)
            /\ calls[i].op = (IF i % 2 = 1 THEN "adjust_lr" ELSE "train")
            /\ calls[i].epoch < args.epochs
       /\ trained <= TrainCount
       /\ pc \in {"final", "done", "error"} => trained = TrainCount

\* C10, with its progress part: the order above holds throughout, and every
\* non-evaluate process that has started reaches the final test.
C10_LoopProgress ==
  /\ []C10_LoopOrder
  /\ [](( pc = "evaluator" /\ ~args.evaluate) => <>(pc = "final"))

C10_Witness ==
  /\ pc = "final"
  /\ args.resume # ""
  /\ 0 < start_epoch
  /\ Len(Trains) = 2
  /\ Len(Trains) = TrainCount

\* the same for a resume at or past the last epoch: nothing is trained
C10_WitnessNone == pc = "final" /\ start_epoch >= args.epochs /\ start_epoch > 0


====
